---- MODULE Spec2Model ----
(***************************************************************************)
(* Model of the live scoreboard component (scores-site, Scoreboard.tsx,    *)
(* the aggregating variant that starts at line 251 of the file):           *)
(*   parseCSV    the permissive CSV tokenizer, one loop iteration a step   *)
(*   withRanks   stable descending sort followed by the rank walk          *)
(*   fetchData   header mapping, aggregation per name, metric, ranking     *)
(*   useEffect   the interval, overlapping calls of fetchData, a change of  *)
(*               the props, the teardown                                   *)
(* and of the record filters of the other two variants of the component    *)
(* (the first variant of Scoreboard.tsx and the Sum/Count/Avg variant).     *)
(* Strings are sequences of one-character strings, so that trimming,       *)
(* tokenizing and number conversion are computed character by character.   *)
(***************************************************************************)
EXTENDS Integers, Sequences, FiniteSets, TLC

VARIABLES
    \* parseCSV: argument, locals and returned value
    csvText, delim, i, cur, row, rows, inQuotes, pc, out,
    \* withRanks: argument and returned value
    items, ranked, rpc,
    \* fetchData: configuration, response, locals and component state
    metric, source, sheet, response, fpc, raw, map, aggregated, rowsState, error, loading,
    \* the mounted component: props, the interval of useEffect, the calls of
    \* fetchData that await their response
    props, alive, timer, inflight,
    \* history of the cycles: how many were started, how often the props
    \* changed, the cycle that completed last, the one that succeeded last and
    \* the one whose list is on display
    started, epoch, lastDone, lastOk, lastWrite,
    \* the three variants of the component applied to the same records
    records, firstRanked, sumRanked, aggRanked, vpc

csvVars     == <<csvText, delim, i, cur, row, rows, inQuotes, pc, out>>
rankVars    == <<items, ranked, rpc>>
fetchVars   == <<metric, source, sheet, response, fpc, raw, map, aggregated, rowsState, error, loading>>
pollVars    == <<props, alive, timer, inflight, started, epoch, lastDone, lastOk, lastWrite>>
variantVars == <<records, firstRanked, sumRanked, aggRanked, vpc>>
vars        == <<csvVars, rankVars, fetchVars, pollVars, variantVars>>

----------------------------------------------------------------------------
(* Bounds of the explored inputs *)

MaxTextLen == 4
MaxItems   == 4
MaxRecords == 2
MaxCycles  == 2
MaxChanges == 1

----------------------------------------------------------------------------
(* Characters and strings *)

QUOTE == "\""
LF    == "\n"
CR    == "\r"

\* "undefined": what csvText[k] yields past the end of the string
Undefined == "undefined"

\* the characters String.prototype.trim removes (those the inputs contain)
WhiteSpace == {" ", LF, CR}

RECURSIVE TrimStart(_)
TrimStart(s) ==
    IF s # <<>> /\ Head(s) \in WhiteSpace THEN TrimStart(Tail(s)) ELSE s

RECURSIVE TrimEnd(_)
TrimEnd(s) ==
    IF s # <<>> /\ s[Len(s)] \in WhiteSpace
    THEN TrimEnd(SubSeq(s, 1, Len(s) - 1)) ELSE s

trim(s) == TrimEnd(TrimStart(s))

includes(s, c) == \E k \in 1..Len(s) : s[k] = c

\* csvText[k] with the code's 0-based index
CharAt(text, k) == IF k >= 0 /\ k < Len(text) THEN text[k + 1] ELSE Undefined

\* the sequences of at most n elements of S
SeqsUpTo(S, n) == UNION {[1..k -> S] : k \in 0..n}

----------------------------------------------------------------------------
(* parseCSV *)

\* csvText.split(/\r?\n/)[0]
FirstLine(text) ==
    IF ~includes(text, LF) THEN text
    ELSE LET n == CHOOSE k \in 1..Len(text) :
                      text[k] = LF /\ \A j \in 1..(k - 1) : text[j] # LF
         IN  IF n > 1 /\ text[n - 1] = CR THEN SubSeq(text, 1, n - 2)
             ELSE SubSeq(text, 1, n - 1)

Delim_WholeText(text) ==
    IF includes(text, ";") /\ ~includes(text, ",") THEN ";" ELSE ","

\* const useSemicolon = firstLine.includes(";") && !firstLine.includes(",")
Delim(text) ==
    IF includes(FirstLine(text), ";") /\ ~includes(FirstLine(text), ",")
    THEN ";" ELSE ","

\* the locals of the loop before its first iteration
LoopInit == [i |-> 0, cur |-> <<>>, row |-> <<>>, rows |-> <<>>, inQuotes |-> FALSE]

InQuotesBranch_SplitsOnDelim(text, d, s) ==
    LET c == CharAt(text, s.i) IN
    IF c = QUOTE
    THEN IF CharAt(text, s.i + 1) = QUOTE
         THEN [s EXCEPT !.cur = Append(s.cur, QUOTE), !.i = s.i + 1]
         ELSE [s EXCEPT !.inQuotes = FALSE]
    ELSE IF c = d
         THEN [s EXCEPT !.row = Append(s.row, s.cur), !.cur = <<>>]
         ELSE [s EXCEPT !.cur = Append(s.cur, c)]

\* the branch taken while inQuotes (before the i++ that ends the iteration)
InQuotesBranch(text, d, s) ==
    LET c == CharAt(text, s.i) IN
    IF c = QUOTE
    THEN IF CharAt(text, s.i + 1) = QUOTE
         THEN [s EXCEPT !.cur = Append(s.cur, QUOTE), !.i = s.i + 1]
         ELSE [s EXCEPT !.inQuotes = FALSE]
    ELSE [s EXCEPT !.cur = Append(s.cur, c)]

\* the branch taken outside quotes
UnquotedBranch(text, d, s) ==
    LET c == CharAt(text, s.i) IN
    IF c = QUOTE THEN [s EXCEPT !.inQuotes = TRUE]
    ELSE IF c = d THEN [s EXCEPT !.row = Append(s.row, s.cur), !.cur = <<>>]
    ELSE IF c = LF THEN [s EXCEPT !.rows = Append(s.rows, Append(s.row, s.cur)),
                                  !.row = <<>>, !.cur = <<>>]
    ELSE IF c = CR THEN s
    ELSE [s EXCEPT !.cur = Append(s.cur, c)]

\* one iteration of while (i < csvText.length) { ...; i++ }
LoopBody(text, d, s) ==
    LET t == IF s.inQuotes THEN InQuotesBranch(text, d, s)
                           ELSE UnquotedBranch(text, d, s)
    IN  [t EXCEPT !.i = t.i + 1]

\* r.length && r.some(cell => (cell ?? "").trim() !== "")
KeepRow(r) == Len(r) # 0 /\ \E k \in 1..Len(r) : trim(r[k]) # <<>>

FilterRows_TrailingOnly(rs) ==
    IF rs # <<>> /\ ~KeepRow(rs[Len(rs)]) THEN SubSeq(rs, 1, Len(rs) - 1) ELSE rs

\* rows.filter(...)
FilterRows(rs) == SelectSeq(rs, KeepRow)

EndOfInput_NoFinalPush(s) == s

EndOfInput_SkipsUnclosed(s) ==
    IF s.inQuotes THEN [s EXCEPT !.rows = Append(s.rows, s.row)]
    ELSE [s EXCEPT !.row = Append(s.row, s.cur), !.rows = Append(s.rows, Append(s.row, s.cur))]

\* after the loop: row.push(cur); rows.push(row)
EndOfInput(s) ==
    [s EXCEPT !.row = Append(s.row, s.cur), !.rows = Append(s.rows, Append(s.row, s.cur))]

RECURSIVE ParseLoop(_, _, _)
ParseLoop(text, d, s) ==
    IF s.i < Len(text) THEN ParseLoop(text, d, LoopBody(text, d, s)) ELSE s

\* the function as a whole
parseCSV(text) ==
    FilterRows(EndOfInput(ParseLoop(text, Delim(text), LoopInit)).rows)

----------------------------------------------------------------------------
(* Numbers: a finite JavaScript number is an IEEE 754 double, kept here as  *)
(* sign, mantissa and exponent of two: (-1)^neg * m * 2^e.  The mantissa is *)
(* a natural number below 2^53, written as its limbs to the base 2^15,      *)
(* least significant first, and odd unless the number is 0, so that two     *)
(* numbers are === exactly when their records are equal.  -0 is kept as 0:  *)
(* ===, the sort, toFixed and || do not tell them apart.  Every result of   *)
(* an operation is rounded to the nearest double, ties to the even          *)
(* mantissa; overflow to Infinity and subnormal results lie outside the     *)
(* numbers a short cell of digits can give.                                 *)
(* The definitions named Big..., with Base, Pow2, Pow10, BitLen,            *)
(* TrailingZeros, Min and Abs, are arithmetic on natural numbers of any     *)
(* size, which the operations on doubles below are written with.            *)

\* NaN and null are records of their own, unequal to every number
NaN  == [nan |-> TRUE]
Null == [null |-> TRUE]

Abs(x) == IF x < 0 THEN -x ELSE x

RECURSIVE Pow2(_)
Pow2(k) == IF k = 0 THEN 1 ELSE 2 * Pow2(k - 1)

\* the bits of a limb of a mantissa
LimbBits == 15
Base == Pow2(LimbBits)

\* a natural number without leading zero limbs
RECURSIVE BigNorm(_)
BigNorm(a) ==
    IF a # <<>> /\ a[Len(a)] = 0 THEN BigNorm(SubSeq(a, 1, Len(a) - 1)) ELSE a

RECURSIVE BigOf(_)
\* the limbs of the integer n >= 0
BigOf(n) == IF n = 0 THEN <<>> ELSE <<n % Base>> \o BigOf(n \div Base)

RECURSIVE BigToInt(_)
\* the integer of the limbs a, below 2^31
BigToInt(a) == IF a = <<>> THEN 0 ELSE Head(a) + Base * BigToInt(Tail(a))

LimbsRest(a) == IF a = <<>> THEN <<>> ELSE Tail(a)
LimbsHead(a) == IF a = <<>> THEN 0 ELSE Head(a)

RECURSIVE BigAddC(_, _, _)
BigAddC(a, b, c) ==
    IF a = <<>> /\ b = <<>> THEN (IF c = 0 THEN <<>> ELSE <<c>>)
    ELSE LET x == LimbsHead(a) + LimbsHead(b) + c
         IN  <<x % Base>> \o BigAddC(LimbsRest(a), LimbsRest(b), x \div Base)

BigAdd(a, b) == BigAddC(a, b, 0)

RECURSIVE BigSubB(_, _, _)
BigSubB(a, b, c) ==
    IF a = <<>> THEN <<>>
    ELSE LET x == Head(a) - LimbsHead(b) - c
         IN  <<(x + Base) % Base>> \o BigSubB(Tail(a), LimbsRest(b), IF x < 0 THEN 1 ELSE 0)

\* a - b for a >= b
BigSub(a, b) == BigNorm(BigSubB(a, b, 0))

\* a < b
BigLess(a, b) ==
    IF Len(a) # Len(b) THEN Len(a) < Len(b)
    ELSE \E k \in 1..Len(a) : a[k] < b[k] /\ \A j \in (k + 1)..Len(a) : a[j] = b[j]

RECURSIVE BigMulC(_, _, _)
BigMulC(a, k, c) ==
    IF a = <<>> THEN (IF c = 0 THEN <<>> ELSE <<c>>)
    ELSE LET x == Head(a) * k + c
         IN  <<x % Base>> \o BigMulC(Tail(a), k, x \div Base)

\* a * k for 0 <= k <= 2^15
BigMulSmall(a, k) == IF k = 0 THEN <<>> ELSE BigMulC(a, k, 0)

RECURSIVE BigDivRec(_, _)
\* quotient and remainder of a by k, 0 < k <= 2^15, limb by limb from the top
BigDivRec(a, k) ==
    IF a = <<>> THEN [q |-> <<>>, r |-> 0]
    ELSE LET hi == BigDivRec(Tail(a), k)
             x  == hi.r * Base + Head(a)
         IN  [q |-> <<x \div k>> \o hi.q, r |-> x % k]

BigDivSmall(a, k) == [q |-> BigNorm(BigDivRec(a, k).q), r |-> BigDivRec(a, k).r]

\* a * 2^n
BigShl(a, n) ==
    IF a = <<>> THEN <<>>
    ELSE [j \in 1..(n \div LimbBits) |-> 0] \o BigMulSmall(a, Pow2(n % LimbBits))

\* the integer part of a / 2^n
BigShr(a, n) ==
    LET d == n \div LimbBits
    IN  IF d >= Len(a) THEN <<>>
        ELSE BigDivSmall(SubSeq(a, d + 1, Len(a)), Pow2(n % LimbBits)).q

RECURSIVE BitLen(_)
BitLen(x) == IF x = 0 THEN 0 ELSE 1 + BitLen(x \div 2)

\* the number of bits of a
BigBitLen(a) == IF a = <<>> THEN 0 ELSE LimbBits * (Len(a) - 1) + BitLen(a[Len(a)])

RECURSIVE TrailingZeros(_)
TrailingZeros(x) == IF x % 2 = 1 THEN 0 ELSE 1 + TrailingZeros(x \div 2)

RECURSIVE BigTrailingZeros(_)
\* the number of zero bits at the low end of a # 0
BigTrailingZeros(a) ==
    IF Head(a) = 0 THEN LimbBits + BigTrailingZeros(Tail(a)) ELSE TrailingZeros(Head(a))

Min(a, b) == IF a <= b THEN a ELSE b

RECURSIVE Pow10(_)
Pow10(k) == IF k = 0 THEN 1 ELSE 10 * Pow10(k - 1)

RECURSIVE BigMulPow10(_, _)
\* a * 10^f, four digits at a time
BigMulPow10(a, f) ==
    IF f = 0 THEN a
    ELSE BigMulPow10(BigMulSmall(a, Pow10(Min(f, 4))), f - Min(f, 4))

RECURSIVE BigDivPow10(_, _)
\* the integer part of a / 10^f, and whether a remainder was dropped, four
\* digits at a time
BigDivPow10(a, f) ==
    IF f = 0 THEN [q |-> a, inexact |-> FALSE]
    ELSE LET d    == BigDivSmall(a, Pow10(Min(f, 4)))
             rest == BigDivPow10(d.q, f - Min(f, 4))
         IN  [q |-> rest.q, inexact |-> (d.r # 0 \/ rest.inexact)]

Zero == [neg |-> FALSE, m |-> <<>>, e |-> 0]

\* the double (-1)^neg * n * 2^e for n of at most 53 significant bits
Double(neg, n, e) ==
    IF n = <<>> THEN Zero
    ELSE LET z == BigTrailingZeros(n)
         IN  [neg |-> neg, m |-> BigShr(n, z), e |-> e + z]

\* the double nearest to the number of magnitude n * 2^e, or, when inexact,
\* of a magnitude strictly between n * 2^e and (n + 1) * 2^e (n then has at
\* least 55 bits); a tie goes to the even mantissa
RoundToDouble(neg, n, e, inexact) ==
    LET s == BigBitLen(n) - 53
    IN  IF s <= 0 THEN Double(neg, n, e)
        ELSE LET q    == BigShr(n, s)
                 r    == BigSub(n, BigShl(q, s))
                 half == BigShl(<<1>>, s - 1)
                 up   == \/ BigLess(half, r)
                         \/ r = half /\ (inexact \/ Head(q) % 2 = 1)
             IN  Double(neg, IF up THEN BigAdd(q, <<1>>) ELSE q, e + s)

\* the double of the integer k
Num(k) == Double(k < 0, BigOf(Abs(k)), 0)

\* the double nearest to d / 10^f, d given by its limbs: what Number and
\* parseFloat make of a decimal numeral with f digits after the point
DecimalToDouble(neg, d, f) ==
    IF d = <<>> THEN Zero
    ELSE IF f = 0 /\ BigBitLen(d) <= 53 THEN Double(neg, d, 0)
    ELSE LET s == 60 + 4 * f
             x == BigDivPow10(BigShl(d, s), f)
         IN  RoundToDouble(neg, x.q, -s, x.inexact)

\* a + b
Add(a, b) ==
    IF a.m = <<>> THEN b
    ELSE IF b.m = <<>> THEN a
    ELSE LET e == Min(a.e, b.e)
             x == BigShl(a.m, a.e - e)
             y == BigShl(b.m, b.e - e)
         IN  IF a.neg = b.neg THEN RoundToDouble(a.neg, BigAdd(x, y), e, FALSE)
             ELSE IF x = y THEN Zero
             ELSE IF BigLess(y, x) THEN RoundToDouble(a.neg, BigSub(x, y), e, FALSE)
             ELSE RoundToDouble(b.neg, BigSub(y, x), e, FALSE)

\* a / k for an integer k, 0 < k <= 2^15
DivInt(a, k) ==
    IF a.m = <<>> THEN Zero
    ELSE LET x == BigDivSmall(BigShl(a.m, 75), k)
         IN  RoundToDouble(a.neg, x.q, a.e - 75, x.r # 0)

\* |a| < |b|
MagnitudeLess(a, b) ==
    IF b.m = <<>> THEN FALSE
    ELSE IF a.m = <<>> THEN TRUE
    ELSE LET ta == BigBitLen(a.m) + a.e
             tb == BigBitLen(b.m) + b.e
             e  == Min(a.e, b.e)
         IN  IF ta # tb THEN ta < tb
             ELSE BigLess(BigShl(a.m, a.e - e), BigShl(b.m, b.e - e))

\* a < b for finite numbers
Less(a, b) ==
    IF a.neg # b.neg THEN a.neg
    ELSE IF a.neg THEN MagnitudeLess(b, a)
    ELSE MagnitudeLess(a, b)

\* -Infinity, below every finite number and equal to itself
NegInf == [neginf |-> TRUE]

\* b - a > 0 for finite numbers and -Infinity (-Infinity - -Infinity is NaN,
\* which the sort reads as 0)
NumLess(a, b) ==
    IF b = NegInf THEN FALSE
    ELSE IF a = NegInf THEN TRUE
    ELSE Less(a, b)

----------------------------------------------------------------------------
(* withRanks *)

RECURSIVE InsertDesc_Ascending(_, _)
InsertDesc_Ascending(sorted, x) ==
    IF sorted = <<>> THEN <<x>>
    ELSE IF NumLess(x.scoreNum, Head(sorted).scoreNum)
         THEN <<x>> \o sorted
         ELSE <<Head(sorted)>> \o InsertDesc_Ascending(Tail(sorted), x)

RECURSIVE InsertDesc(_, _)
\* x placed after every element that does not compare below it:
\* the comparator (a, b) => b.scoreNum - a.scoreNum under a stable sort
InsertDesc(sorted, x) ==
    IF sorted = <<>> THEN <<x>>
    ELSE IF NumLess(Head(sorted).scoreNum, x.scoreNum)
         THEN <<x>> \o sorted
         ELSE <<Head(sorted)>> \o InsertDesc(Tail(sorted), x)

RECURSIVE SortDesc(_)
\* [...items].sort((a, b) => b.scoreNum - a.scoreNum)
SortDesc(its) ==
    IF its = <<>> THEN <<>>
    ELSE InsertDesc(SortDesc(SubSeq(its, 1, Len(its) - 1)), its[Len(its)])

\* { ...item, rank }
WithRank(item, rank) ==
    [f \in (DOMAIN item) \cup {"rank"} |-> IF f = "rank" THEN rank ELSE item[f]]

RankOf_PreviousPlusOne(lastScore, lastRank, item, idx) ==
    IF lastScore = item.scoreNum THEN lastRank ELSE lastRank + 1

\* const rank = (lastScore === item.scoreNum) ? lastRank : (idx + 1)
RankOf(lastScore, lastRank, item, idx) ==
    IF lastScore = item.scoreNum THEN lastRank ELSE idx + 1

RECURSIVE RankWalk(_, _, _, _)
\* sorted.map((item, idx) => ...) from index idx on, with the closure's
\* lastScore and lastRank
RankWalk(sorted, idx, lastScore, lastRank) ==
    IF idx >= Len(sorted) THEN <<>>
    ELSE LET item == sorted[idx + 1]
             rank == RankOf(lastScore, lastRank, item, idx)
         IN  <<WithRank(item, rank)>> \o RankWalk(sorted, idx + 1, item.scoreNum, rank)

withRanks(its) == RankWalk(SortDesc(its), 0, Null, 0)

----------------------------------------------------------------------------
(* Configuration of the component *)

NAME_COL  == <<"N", "a", "m", "e">>
SCORE_COL == <<"S", "c", "o", "r", "e">>

\* the metrics DISPLAY_METRIC can be set to, and the one it is set to
Metrics == {"sum", "avg"}

DISPLAY_METRIC == "sum"

\* error === null
NoError == "null"

UpperCase == <<"A", "B", "C", "D", "E", "F", "G", "H", "I", "J", "K", "L", "M",
               "N", "O", "P", "Q", "R", "S", "T", "U", "V", "W", "X", "Y", "Z">>
LowerCase == <<"a", "b", "c", "d", "e", "f", "g", "h", "i", "j", "k", "l", "m",
               "n", "o", "p", "q", "r", "s", "t", "u", "v", "w", "x", "y", "z">>

toLowerCase(s) ==
    [k \in 1..Len(s) |->
        IF \E u \in 1..26 : UpperCase[u] = s[k]
        THEN LowerCase[CHOOSE u \in 1..26 : UpperCase[u] = s[k]]
        ELSE s[k]]

----------------------------------------------------------------------------
(* Number(String(score).replace(/,/g, ".")) *)

Digits == <<"0", "1", "2", "3", "4", "5", "6", "7", "8", "9">>

IsDigit(c) == \E k \in 1..10 : Digits[k] = c

DigitVal(c) == (CHOOSE k \in 1..10 : Digits[k] = c) - 1

NotDot(c) == c # "."

RECURSIVE SmallValue(_)
\* the integer a string of at most four digits writes
SmallValue(s) ==
    IF s = <<>> THEN 0
    ELSE 10 * SmallValue(SubSeq(s, 1, Len(s) - 1)) + DigitVal(s[Len(s)])

RECURSIVE BigDigits(_)
\* the integer a string of digits writes, as limbs, four digits at a time
BigDigits(s) ==
    IF Len(s) <= 4 THEN BigOf(SmallValue(s))
    ELSE BigAdd(BigMulSmall(BigDigits(SubSeq(s, 1, Len(s) - 4)), 10000),
                BigOf(SmallValue(SubSeq(s, Len(s) - 3, Len(s)))))

\* the integer the digits of a decimal literal write, its point skipped
DigitsValue(s) == BigDigits(SelectSeq(s, NotDot))

\* .replace(/,/g, ".")
replaceCommas(s) == [k \in 1..Len(s) |-> IF s[k] = "," THEN "." ELSE s[k]]

\* StrUnsignedDecimalLiteral without exponent: digits, at most one dot,
\* at least one digit
IsUnsignedDecimal(u) ==
    /\ \A k \in 1..Len(u) : IsDigit(u[k]) \/ u[k] = "."
    /\ Cardinality({k \in 1..Len(u) : u[k] = "."}) <= 1
    /\ \E k \in 1..Len(u) : IsDigit(u[k])

\* the digits of the literal u as an integer, and the number of digits
\* after its point
UnsignedValue(u) ==
    LET dots == {k \in 1..Len(u) : u[k] = "."}
        frac == IF dots = {} THEN 0 ELSE Len(u) - (CHOOSE k \in dots : TRUE)
    IN  [d |-> DigitsValue(u), frac |-> frac]

\* Number(s) for a string s of signs, digits, dots, white space and
\* characters that are part of no numeric literal: the empty or blank
\* string converts to 0, a signed decimal literal to its value, anything
\* else to NaN.  (Exponents, Infinity and 0x/0o/0b literals contain
\* characters the inputs of this model do not use.)
ToNumber(s) ==
    LET t == trim(s)
        signed == t # <<>> /\ Head(t) \in {"+", "-"}
        u == IF signed THEN Tail(t) ELSE t
    IN  IF t = <<>> THEN Num(0)
        ELSE IF ~IsUnsignedDecimal(u) THEN NaN
        ELSE DecimalToDouble(signed /\ Head(t) = "-",
                             UnsignedValue(u).d, UnsignedValue(u).frac)

\* Number.isFinite(x), for the values ToNumber yields
isFinite(x) == x # NaN

\* x.toFixed(f): the sign, and the integer n for which n / 10^f is closest
\* to |x|, the larger n on a tie: the string is the sign, the digits of n
\* and a point before the last f of them (n below 2^31)
toFixed(x, f) ==
    LET p == BigMulPow10(x.m, f)
        n == IF x.e >= 0 THEN BigShl(p, x.e)
             ELSE BigShr(BigAdd(BigShr(p, -(x.e) - 1), <<1>>), 1)
    IN  [neg |-> x.neg, n |-> BigToInt(n), digits |-> f]

----------------------------------------------------------------------------
(* fetchFromCSV, fetchFromSheetsApi *)

\* const norm = (s) => (s ?? "").trim().toLowerCase()
norm(s) == toLowerCase(trim(s))

\* header.forEach((h, i) => (headerIdx[norm(h)] = i)); headerIdx[key]:
\* the last column whose normalised header is key, 0-based; -1 is undefined
headerIdx(header, key) ==
    LET hits == {k \in 1..Len(header) : norm(header[k]) = key}
    IN  IF hits = {} THEN -1
        ELSE (CHOOSE k \in hits : \A j \in hits : j <= k) - 1

\* r[idx] ?? ""
CellOr(r, idx) == IF idx >= 0 /\ idx < Len(r) THEN r[idx + 1] ELSE <<>>

HeaderMap_NoTrim(grid) ==
    LET header   == Head(grid)
        data     == Tail(grid)
        nameIdx  == headerIdx(header, norm(NAME_COL))
        scoreIdx == headerIdx(header, norm(SCORE_COL))
    IN  IF nameIdx = -1 \/ scoreIdx = -1 THEN <<>>
        ELSE [k \in 1..Len(data) |->
                [name  |-> CellOr(data[k], nameIdx),
                 score |-> CellOr(data[k], scoreIdx)]]

HeaderMap_MissingColumnReadsEmpty(grid) ==
    LET header   == Head(grid)
        data     == Tail(grid)
        nameIdx  == headerIdx(header, norm(NAME_COL))
        scoreIdx == headerIdx(header, norm(SCORE_COL))
    IN  [k \in 1..Len(data) |->
            [name  |-> trim(CellOr(data[k], nameIdx)),
             score |-> trim(CellOr(data[k], scoreIdx))]]

\* const [header, ...data] = rows; ...; return data.map(r => ({ name, score }))
HeaderMap(grid) ==
    LET header   == Head(grid)
        data     == Tail(grid)
        nameIdx  == headerIdx(header, norm(NAME_COL))
        scoreIdx == headerIdx(header, norm(SCORE_COL))
    IN  IF nameIdx = -1 \/ scoreIdx = -1 THEN <<>>
        ELSE [k \in 1..Len(data) |->
                [name  |-> trim(CellOr(data[k], nameIdx)),
                 score |-> trim(CellOr(data[k], scoreIdx))]]

\* the part of fetchFromCSV after the response text has arrived
fetchFromCSV(text) ==
    LET parsed == parseCSV(text)
    IN  IF parsed = <<>> THEN <<>> ELSE HeaderMap(parsed)

\* the part of fetchFromSheetsApi after json.values has arrived
fetchFromSheetsApi(values) ==
    IF values = <<>> THEN <<>> ELSE HeaderMap(values)

----------------------------------------------------------------------------
(* fetchData: aggregation *)

\* map.get(name) !== undefined
MapHas(m, name) == \E k \in 1..Len(m) : m[k].name = name

MapIndex(m, name) == CHOOSE k \in 1..Len(m) : m[k].name = name

AggStep_KeepsUnnamed(m, r) ==
    LET scoreNum == ToNumber(replaceCommas(r.score)) IN
    IF ~isFinite(scoreNum) THEN m
    ELSE IF MapHas(m, r.name)
         THEN LET k == MapIndex(m, r.name)
              IN  [m EXCEPT ![k] = [name  |-> r.name,
                                    total |-> Add(m[k].total, scoreNum),
                                    count |-> m[k].count + 1]]
         ELSE Append(m, [name |-> r.name, total |-> scoreNum, count |-> 1])

AggStep_NewGroupEachRecord(m, r) ==
    LET scoreNum == ToNumber(replaceCommas(r.score)) IN
    IF r.name = <<>> THEN m
    ELSE IF ~isFinite(scoreNum) THEN m
    ELSE Append(m, [name |-> r.name, total |-> scoreNum, count |-> 1])

\* one iteration of for (const r of raw) { ... }; the Map keeps its keys in
\* insertion order, so it is a sequence of groups
AggStep(m, r) ==
    LET scoreNum == ToNumber(replaceCommas(r.score)) IN
    IF r.name = <<>> THEN m
    ELSE IF ~isFinite(scoreNum) THEN m
    ELSE IF MapHas(m, r.name)
         THEN LET k == MapIndex(m, r.name)
              IN  [m EXCEPT ![k] = [name  |-> r.name,
                                    total |-> Add(m[k].total, scoreNum),
                                    count |-> m[k].count + 1]]
         ELSE Append(m, [name |-> r.name, total |-> scoreNum, count |-> 1])

RECURSIVE Aggregate(_)
\* the Map after the loop over raw
Aggregate(rs) ==
    IF rs = <<>> THEN <<>>
    ELSE AggStep(Aggregate(SubSeq(rs, 1, Len(rs) - 1)), rs[Len(rs)])

\* the properties the object literal inherits from Object.prototype, each
\* with the function or object it holds (none of them a string, all truthy)
InheritedProperties ==
    {[key |-> <<"c", "o", "n", "s", "t", "r", "u", "c", "t", "o", "r">>,
      value |-> "Object.prototype.constructor"],
     [key |-> <<"h", "a", "s", "O", "w", "n", "P", "r", "o", "p", "e", "r", "t", "y">>,
      value |-> "Object.prototype.hasOwnProperty"],
     [key |-> <<"i", "s", "P", "r", "o", "t", "o", "t", "y", "p", "e", "O", "f">>,
      value |-> "Object.prototype.isPrototypeOf"],
     [key |-> <<"p", "r", "o", "p", "e", "r", "t", "y", "I", "s", "E", "n", "u", "m", "e", "r", "a", "b", "l", "e">>,
      value |-> "Object.prototype.propertyIsEnumerable"],
     [key |-> <<"t", "o", "L", "o", "c", "a", "l", "e", "S", "t", "r", "i", "n", "g">>,
      value |-> "Object.prototype.toLocaleString"],
     [key |-> <<"t", "o", "S", "t", "r", "i", "n", "g">>,
      value |-> "Object.prototype.toString"],
     [key |-> <<"v", "a", "l", "u", "e", "O", "f">>,
      value |-> "Object.prototype.valueOf"],
     [key |-> <<"_", "_", "p", "r", "o", "t", "o", "_", "_">>,
      value |-> "Object.prototype.__proto__"],
     [key |-> <<"_", "_", "d", "e", "f", "i", "n", "e", "G", "e", "t", "t", "e", "r", "_", "_">>,
      value |-> "Object.prototype.__defineGetter__"],
     [key |-> <<"_", "_", "d", "e", "f", "i", "n", "e", "S", "e", "t", "t", "e", "r", "_", "_">>,
      value |-> "Object.prototype.__defineSetter__"],
     [key |-> <<"_", "_", "l", "o", "o", "k", "u", "p", "G", "e", "t", "t", "e", "r", "_", "_">>,
      value |-> "Object.prototype.__lookupGetter__"],
     [key |-> <<"_", "_", "l", "o", "o", "k", "u", "p", "S", "e", "t", "t", "e", "r", "_", "_">>,
      value |-> "Object.prototype.__lookupSetter__"]}

\* PHOTO_BY_NAME[name] || "": the own property, else the inherited one,
\* else undefined, which || turns into ""
PHOTO_BY_NAME(name) ==
    IF name = <<"M", "u", "h", "a", "s", "i", "n", " ", "T", "P">>
    THEN "/photos/Muhasin%20TP.JPG"
    ELSE IF \E p \in InheritedProperties : p.key = name
    THEN (CHOOSE p \in InheritedProperties : p.key = name).value
    ELSE ""

Max(a, b) == IF a >= b THEN a ELSE b

ScoreNum_AverageUnguarded(m, agg) ==
    IF m = "sum" THEN agg.total ELSE agg.total

\* DISPLAY_METRIC === "sum" ? agg.total : agg.total / Math.max(1, agg.count)
ScoreNum(m, agg) ==
    IF m = "sum" THEN agg.total ELSE DivInt(agg.total, Max(1, agg.count))

Entries_ScoreFromDisplay(m, groups) ==
    [k \in 1..Len(groups) |->
        LET scoreNum == ScoreNum(m, groups[k])
            display  == IF m = "sum" THEN toFixed(scoreNum, 0) ELSE toFixed(scoreNum, 2)
        IN  [name     |-> groups[k].name,
             photo    |-> PHOTO_BY_NAME(groups[k].name),
             score    |-> display,
             scoreNum |-> DecimalToDouble(display.neg, BigOf(display.n), display.digits),
             votes    |-> groups[k].count]]

\* Array.from(map.entries()).map(([name, agg]) => ({ ... }))
Entries(m, groups) ==
    [k \in 1..Len(groups) |->
        LET scoreNum == ScoreNum(m, groups[k])
        IN  [name     |-> groups[k].name,
             photo    |-> PHOTO_BY_NAME(groups[k].name),
             score    |-> IF m = "sum" THEN toFixed(scoreNum, 0) ELSE toFixed(scoreNum, 2),
             scoreNum |-> scoreNum,
             votes    |-> groups[k].count]]

----------------------------------------------------------------------------
(* The inputs explored *)

\* parseCSV: every text of at most MaxTextLen characters of this alphabet,
\* and the texts below
Alphabet == {"a", " ", ",", ";", QUOTE, LF, CR}

\* "a,b""c"
QuotedFieldText == <<QUOTE, "a", ",", "b", QUOTE, QUOTE, "c", QUOTE>>

\* a;b;c LF d,e;f
SemicolonText == <<"a", ";", "b", ";", "c", LF, "d", ",", "e", ";", "f">>

\* a,"b;c LF d   (the quote is never closed)
UnclosedQuoteText == <<"a", ",", QUOTE, "b", ";", "c", LF, "d">>

\* a,b LF LF SP,SP LF c,d LF   (blank lines in the middle and at the end)
BlankLinesText == <<"a", ",", "b", LF, LF, " ", ",", " ", LF, "c", ",", "d", LF>>

ExampleTexts == {QuotedFieldText, SemicolonText, UnclosedQuoteText, BlankLinesText}

CsvInputs == SeqsUpTo(Alphabet, MaxTextLen) \cup ExampleTexts

\* withRanks: every list of at most MaxItems items with these scores, named
\* by their position in the list, and the lists below
ScoreVals == {3, 7, 10}

ItemsOf(scores) ==
    [k \in 1..Len(scores) |-> [name |-> <<UpperCase[k]>>, scoreNum |-> Num(scores[k])]]

ExampleScores == {<<10, 10, 7, 7, 7, 3>>, <<7, 3, 10, 7, 10, 7>>}

RankInputs == {ItemsOf(sc) : sc \in SeqsUpTo(ScoreVals, MaxItems) \cup ExampleScores}

\* fetchData: the sheet is a list of at most MaxRecords records under one of
\* two header rows; a record's last cell may be absent (a short row)
Absent == <<Undefined>>

NameCells  == {<<"A">>, <<"B">>, <<" ", "A">>, <<>>}
ScoreCells == {<<"5">>, <<"3">>, <<"8">>, <<"N", "/", "A">>, <<>>, <<"2", ",", "5">>}

NameFirst  == <<NAME_COL, SCORE_COL>>
ScoreFirst == <<<<" ", "S", "C", "O", "R", "E">>, <<"n", "a", "m", "e", " ">>>>
NameOnly   == <<NAME_COL>>
Headers    == {NameFirst, ScoreFirst}

RecordsUnder(h) ==
    IF h = NameFirst
    THEN {[name |-> n, score |-> sc] : n \in NameCells, sc \in ScoreCells \cup {Absent}}
    ELSE {[name |-> n, score |-> sc] : n \in NameCells \cup {Absent}, sc \in ScoreCells}

Rec(n, sc) == [name |-> n, score |-> sc]

\* {A:5},{A:3},{B:8}
ExampleRecords == <<Rec(<<"A">>, <<"5">>), Rec(<<"A">>, <<"3">>), Rec(<<"B">>, <<"8">>)>>

\* {A:5},{A:3},{A:8},{B:5,33}: the averages 16/3 and 5.33 both show as 5.33
CloseAverages == <<Rec(<<"A">>, <<"5">>), Rec(<<"A">>, <<"3">>), Rec(<<"A">>, <<"8">>),
                   Rec(<<"B">>, <<"5", ",", "3", "3">>)>>

\* {A:0,1},{A:0,2},{B:0,3}: 0.1 + 0.2 is 0.30000000000000004, above 0.3
RoundedSum == <<Rec(<<"A">>, <<"0", ",", "1">>), Rec(<<"A">>, <<"0", ",", "2">>),
                Rec(<<"B">>, <<"0", ",", "3">>)>>

\* {constructor:5}: a name that is a property of every object
InheritedName == <<Rec(<<"c", "o", "n", "s", "t", "r", "u", "c", "t", "o", "r">>, <<"5">>)>>

\* {A:1.005}: the double nearest to 1.005 lies below it
BelowHalfway == <<Rec(<<"A">>, <<"1", ".", "0", "0", "5">>)>>

ExampleSheets ==
    {[header |-> h, records |-> ExampleRecords] : h \in Headers}
    \cup {[header |-> NameFirst, records |-> CloseAverages]}
    \cup {[header |-> NameFirst, records |-> RoundedSum]}
    \cup {[header |-> NameFirst, records |-> InheritedName]}
    \cup {[header |-> NameFirst, records |-> BelowHalfway]}
    \cup {[header |-> NameOnly, records |-> <<Rec(<<"A">>, Absent)>>]}

\* the sheets of n records under the header row h
SheetsOf(h, n) == {[header |-> h, records |-> rs] : rs \in [1..n -> RecordsUnder(h)]}

\* the row of cells of one record under a header row
RowOf(h, rec) ==
    IF h = ScoreFirst \/ h = <<SCORE_COL>>
    THEN (IF rec.name = Absent THEN <<rec.score>> ELSE <<rec.score, rec.name>>)
    ELSE (IF rec.score = Absent THEN <<rec.name>> ELSE <<rec.name, rec.score>>)

\* json.values of the tabular API for a sheet
ValuesOf(sh) == <<sh.header>> \o [k \in 1..Len(sh.records) |-> RowOf(sh.header, sh.records[k])]

RECURSIVE Join(_, _)
Join(parts, sep) ==
    IF parts = <<>> THEN <<>>
    ELSE IF Len(parts) = 1 THEN parts[1]
    ELSE parts[1] \o sep \o Join(Tail(parts), sep)

RECURSIVE DoubleQuotes(_)
DoubleQuotes(c) ==
    IF c = <<>> THEN <<>>
    ELSE IF Head(c) = QUOTE THEN <<QUOTE, QUOTE>> \o DoubleQuotes(Tail(c))
    ELSE <<Head(c)>> \o DoubleQuotes(Tail(c))

\* a cell as the CSV export writes it: quoted when it holds a comma, a quote
\* or a line break
CsvCell(c) ==
    IF \E k \in 1..Len(c) : c[k] \in {",", QUOTE, LF, CR}
    THEN <<QUOTE>> \o DoubleQuotes(c) \o <<QUOTE>> ELSE c

\* the text of the published CSV export for a sheet: lines end in CR LF
CsvOf(sh) ==
    LET grid == ValuesOf(sh)
    IN  Join([k \in 1..Len(grid) |->
                Join([j \in 1..Len(grid[k]) |-> CsvCell(grid[k][j])], <<",">>)],
             <<CR, LF>>)

HttpFailures == {404, 500}

FailMessage(src, status) ==
    IF src = "csv"
    THEN (IF status = 404 THEN "CSV fetch failed: 404" ELSE "CSV fetch failed: 500")
    ELSE (IF status = 404 THEN "Sheets API fetch failed: 404" ELSE "Sheets API fetch failed: 500")

----------------------------------------------------------------------------
(* States of the three parts when they are not running *)

CsvIdle ==
    /\ csvText = <<>> /\ delim = "," /\ i = 0 /\ cur = <<>> /\ row = <<>>
    /\ rows = <<>> /\ inQuotes = FALSE /\ pc = "idle" /\ out = <<>>

RankIdle == items = <<>> /\ ranked = <<>> /\ rpc = "idle"

FetchIdle ==
    /\ metric = "sum" /\ source = "csv" /\ sheet = <<>> /\ response = <<>>
    /\ fpc = "idle" /\ raw = <<>> /\ map = <<>> /\ aggregated = <<>>
    /\ rowsState = <<>> /\ error = NoError /\ loading = TRUE

\* no props and no interval: the component is not mounted
NoProps == [csvUrl |-> Undefined, apiKey |-> Undefined, sheetId |-> Undefined,
            range |-> Undefined]

NoCycle == [tick |-> 0, ok |-> TRUE]

NoWrite == [tick |-> 0, epoch |-> 0, before |-> <<>>]

PollIdle ==
    /\ props = NoProps /\ alive = "idle" /\ timer = Null /\ inflight = <<>>
    /\ started = 0 /\ epoch = 0 /\ lastDone = NoCycle /\ lastOk = 0
    /\ lastWrite = NoWrite

VariantIdle ==
    /\ records = <<>> /\ firstRanked = <<>> /\ sumRanked = <<>> /\ aggRanked = <<>>
    /\ vpc = "idle"

----------------------------------------------------------------------------
(* parseCSV as a state machine: one loop iteration is one step *)

InitCSV ==
    /\ csvText \in CsvInputs
    /\ delim = "," /\ i = 0 /\ cur = <<>> /\ row = <<>> /\ rows = <<>>
    /\ inQuotes = FALSE /\ pc = "start" /\ out = <<>>
    /\ RankIdle /\ FetchIdle /\ PollIdle /\ VariantIdle

\* lines 275-280: the delimiter and the initial values of the locals
ParseStart ==
    /\ pc = "start"
    /\ delim' = Delim(csvText)
    /\ i' = LoopInit.i /\ cur' = LoopInit.cur /\ row' = LoopInit.row
    /\ rows' = LoopInit.rows /\ inQuotes' = LoopInit.inQuotes
    /\ pc' = "loop"
    /\ UNCHANGED <<csvText, out, rankVars, fetchVars, pollVars, variantVars>>

Locals == [i |-> i, cur |-> cur, row |-> row, rows |-> rows, inQuotes |-> inQuotes]

\* lines 282-299: one iteration of the while loop
ParseStep ==
    /\ pc = "loop"
    /\ i < Len(csvText)
    /\ LET t == LoopBody(csvText, delim, Locals)
       IN  /\ i' = t.i /\ cur' = t.cur /\ row' = t.row /\ rows' = t.rows
           /\ inQuotes' = t.inQuotes
    /\ UNCHANGED <<csvText, delim, pc, out, rankVars, fetchVars, pollVars, variantVars>>

\* lines 300-302: the loop has ended; push the open cell and row, filter, return
ParseEnd ==
    /\ pc = "loop"
    /\ ~(i < Len(csvText))
    /\ LET t == EndOfInput(Locals)
       IN  /\ row' = t.row /\ rows' = t.rows
           /\ out' = FilterRows(t.rows)
    /\ pc' = "done"
    /\ UNCHANGED <<csvText, delim, i, cur, inQuotes, rankVars, fetchVars, pollVars, variantVars>>

NextCSV == ParseStart \/ ParseStep \/ ParseEnd

SpecCSV == InitCSV /\ [][NextCSV]_vars

\* the loop runs to its end: the steps of one call are not interrupted
FairSpecCSV == SpecCSV /\ WF_vars(NextCSV)

----------------------------------------------------------------------------
(* withRanks applied to a list *)

InitRanks ==
    /\ items \in RankInputs /\ ranked = <<>> /\ rpc = "start"
    /\ CsvIdle /\ FetchIdle /\ PollIdle /\ VariantIdle

WithRanksCall ==
    /\ rpc = "start"
    /\ ranked' = withRanks(items)
    /\ rpc' = "done"
    /\ UNCHANGED <<items, csvVars, fetchVars, pollVars, variantVars>>

NextRanks == WithRanksCall

SpecRanks == InitRanks /\ [][NextRanks]_vars

----------------------------------------------------------------------------
(* One fetch cycle of the component *)

Sources == {"csv", "api", "none"}

Init ==
    /\ metric \in Metrics
    /\ source \in Sources
    /\ sheet = <<>> /\ response = <<>>
    /\ fpc = "mounted" /\ raw = <<>> /\ map = <<>> /\ aggregated = <<>>
    /\ rowsState = <<>> /\ error = NoError /\ loading = TRUE
    /\ CsvIdle /\ RankIdle /\ PollIdle /\ VariantIdle

\* lines 421-426: setError(null) and the request for the configured source
FetchDataStart ==
    /\ fpc = "mounted"
    /\ source \in {"csv", "api"}
    /\ error' = NoError
    /\ fpc' = "awaiting"
    /\ UNCHANGED <<metric, source, sheet, response, raw, map, aggregated, rowsState,
                   loading, csvVars, rankVars, pollVars, variantVars>>

\* lines 421-427, 457-461: no source is configured
FetchDataNoSource ==
    /\ fpc = "mounted"
    /\ source = "none"
    /\ error' = "Provide csvUrl OR apiKey+sheetId+range"
    /\ loading' = FALSE
    /\ fpc' = "done"
    /\ UNCHANGED <<metric, source, sheet, response, raw, map, aggregated, rowsState,
                   csvVars, rankVars, pollVars, variantVars>>

\* lines 429-456, 459-461: the rest of the handler once raw is there
Finish ==
    /\ map' = Aggregate(raw')
    /\ aggregated' = Entries(metric, map')
    /\ rowsState' = withRanks(aggregated')
    /\ loading' = FALSE
    /\ fpc' = "done"

\* lines 306-324 and the rest of fetchData: the CSV response arrives, status ok
CsvArrives(sh) ==
    /\ sheet' = sh
    /\ response' = CsvOf(sh)
    /\ raw' = fetchFromCSV(response')
    /\ Finish

FetchDataCSV ==
    /\ fpc = "awaiting"
    /\ source = "csv"
    /\ \/ \E h \in Headers : \E n \in 0..MaxRecords : \E sh \in SheetsOf(h, n) : CsvArrives(sh)
       \/ \E sh \in ExampleSheets : CsvArrives(sh)
    /\ UNCHANGED <<metric, source, error, csvVars, rankVars, pollVars, variantVars>>

\* lines 329-346 and the rest of fetchData: the API response arrives, status ok
ValuesArrive(sh) ==
    /\ sheet' = sh
    /\ response' = ValuesOf(sh)
    /\ raw' = fetchFromSheetsApi(response')
    /\ Finish

FetchDataApi ==
    /\ fpc = "awaiting"
    /\ source = "api"
    /\ \/ \E h \in Headers : \E n \in 0..MaxRecords : \E sh \in SheetsOf(h, n) : ValuesArrive(sh)
       \/ \E sh \in ExampleSheets : ValuesArrive(sh)
    /\ UNCHANGED <<metric, source, error, csvVars, rankVars, pollVars, variantVars>>

\* lines 307, 330, 457-461: the response arrives with a status that is not ok
FetchDataFailed ==
    /\ fpc = "awaiting"
    /\ \E status \in HttpFailures : error' = FailMessage(source, status)
    /\ loading' = FALSE
    /\ fpc' = "done"
    /\ UNCHANGED <<metric, source, sheet, response, raw, map, aggregated, rowsState,
                   csvVars, rankVars, pollVars, variantVars>>

Next ==
    \/ FetchDataStart
    \/ FetchDataNoSource
    \/ FetchDataCSV
    \/ FetchDataApi
    \/ FetchDataFailed

Spec == Init /\ [][Next]_vars

----------------------------------------------------------------------------
(* The mounted component: the effect, its interval and overlapping cycles *)

\* if (csvUrl), apiKey && sheetId && range: undefined and "" are falsy
Truthy(v) == v # Undefined /\ v # ""

SourceOf_ApiFirst(p) ==
    IF Truthy(p.apiKey) /\ Truthy(p.sheetId) /\ Truthy(p.range) THEN "api"
    ELSE IF Truthy(p.csvUrl) THEN "csv"
    ELSE "none"

\* lines 425-427: the branch fetchData takes for the props it closes over
SourceOf(p) ==
    IF Truthy(p.csvUrl) THEN "csv"
    ELSE IF Truthy(p.apiKey) /\ Truthy(p.sheetId) /\ Truthy(p.range) THEN "api"
    ELSE "none"

ConfigMessage == "Provide csvUrl OR apiKey+sheetId+range"

Props(c, k, s, r) == [csvUrl |-> c, apiKey |-> k, sheetId |-> s, range |-> r]

\* the props of the first render: each prop given or absent, and the cases
\* of a prop given as the empty string
Configs ==
    [csvUrl : {Undefined, "set"}, apiKey : {Undefined, "set"},
     sheetId : {Undefined, "set"}, range : {Undefined, "set"}]
    \cup {Props("", "set", "set", "set"), Props("", Undefined, Undefined, Undefined),
          Props(Undefined, "set", "", "set"), Props("set", "", "", "")}

\* the props a later render receives: CSV only, API only, both, neither
NewConfigs == {Props("set", Undefined, Undefined, Undefined),
               Props(Undefined, "set", "set", "set"),
               Props("set", "set", "set", "set"),
               NoProps}

\* the sheet as the source holds it when a response is produced
ScoreOnly == <<SCORE_COL>>

PollSheets ==
    {[header |-> NameFirst, records |-> <<Rec(<<"A">>, <<"5">>)>>],
     [header |-> NameFirst, records |-> <<Rec(<<"A">>, <<"3">>), Rec(<<"B">>, <<"8">>)>>],
     [header |-> NameOnly,  records |-> <<Rec(<<"A">>, Absent)>>],
     [header |-> ScoreOnly, records |-> <<Rec(Absent, <<"5">>)>>]}

\* what fetch rejects with when the request does not reach the server
NetworkMessage == "Failed to fetch"

Without(seq, k) == SubSeq(seq, 1, k - 1) \o SubSeq(seq, k + 1, Len(seq))

InitPoll ==
    /\ props \in Configs
    /\ alive = "rendered" /\ timer = Null /\ inflight = <<>>
    /\ started = 0 /\ epoch = 0 /\ lastDone = NoCycle /\ lastOk = 0
    /\ lastWrite = NoWrite
    /\ metric = DISPLAY_METRIC
    /\ source = "none" /\ sheet = <<>> /\ response = <<>>
    /\ fpc = "mounted" /\ raw = <<>> /\ map = <<>> /\ aggregated = <<>>
    /\ rowsState = <<>> /\ error = NoError /\ loading = TRUE
    /\ CsvIdle /\ RankIdle /\ VariantIdle

\* lines 421-427 of a call of fetchData that closes over the props p: the
\* banner is cleared; with a source the call awaits its response, without
\* one it throws and ends at once (lines 457-461); the setters of a
\* component that was removed change nothing
StartCycle(p, e) ==
    /\ started' = started + 1
    /\ IF SourceOf(p) = "none"
       THEN /\ IF alive # "unmounted"
               THEN error' = ConfigMessage /\ loading' = FALSE
               ELSE UNCHANGED <<error, loading>>
            /\ source' = "none"
            /\ inflight' = inflight
            /\ lastDone' = [tick |-> started + 1, ok |-> FALSE]
       ELSE /\ error' = IF alive # "unmounted" THEN NoError ELSE error
            /\ inflight' = Append(inflight, [tick |-> started + 1, epoch |-> e,
                                             props |-> p, source |-> SourceOf(p)])
            /\ UNCHANGED <<loading, source, lastDone>>

\* the effect of the newest render has not run yet: the interval, if any,
\* is the one set by the effect of an earlier render
EffectPending == alive = "mounted" /\ timer.epoch # epoch

\* lines 464-466: the effect runs after the first render
Mount ==
    /\ alive = "rendered"
    /\ alive' = "mounted"
    /\ timer' = [props |-> props, epoch |-> epoch]
    /\ StartCycle(props, epoch)
    /\ UNCHANGED <<props, epoch, lastOk, lastWrite, metric, sheet, response, fpc,
                   raw, map, aggregated, rowsState, csvVars, rankVars, variantVars>>

\* line 466: the interval calls the fetchData of the render that set it,
\* as long as it has not been cleared
TimerTick ==
    /\ alive \in {"mounted", "unmounted"}
    /\ timer # Null
    /\ started < MaxCycles
    /\ StartCycle(timer.props, timer.epoch)
    /\ UNCHANGED <<props, alive, timer, epoch, lastOk, lastWrite, metric, sheet,
                   response, fpc, raw, map, aggregated, rowsState, csvVars, rankVars,
                   variantVars>>

SetRows_DiscardsStale(c, list) ==
    IF c.tick > lastWrite.tick
    THEN /\ rowsState' = list
         /\ lastWrite' = [tick |-> c.tick, epoch |-> c.epoch, before |-> rowsState]
    ELSE UNCHANGED <<rowsState, lastWrite>>

\* line 456: setRows(ranked) of the call c
SetRows(c, list) ==
    /\ rowsState' = list
    /\ lastWrite' = [tick |-> c.tick, epoch |-> c.epoch, before |-> rowsState]

\* lines 305-324 or 327-346, then 429-455: the locals of a call that reads
\* the sheet sh from the source src under the metric m, for every metric,
\* source and sheet of the model
CallLocalsOf ==
    [m \in Metrics |-> [src \in {"csv", "api"} |-> [sh \in PollSheets |->
        LET res == IF src = "csv" THEN CsvOf(sh) ELSE ValuesOf(sh)
            rw  == IF src = "csv" THEN fetchFromCSV(res) ELSE fetchFromSheetsApi(res)
            mp  == Aggregate(rw)
            agg == Entries(m, mp)
        IN  [response |-> res, raw |-> rw, map |-> mp, aggregated |-> agg,
             ranked |-> withRanks(agg)]]]]

\* lines 305-324 or 327-346, then 429-456 and 459-461: the response of the
\* call c arrives with a status that is ok; the setters of a component
\* that was removed change nothing
Succeed(c, sh) ==
    /\ source' = c.source
    /\ sheet' = sh
    /\ response' = CallLocalsOf[metric][c.source][sh].response
    /\ raw' = CallLocalsOf[metric][c.source][sh].raw
    /\ map' = CallLocalsOf[metric][c.source][sh].map
    /\ aggregated' = CallLocalsOf[metric][c.source][sh].aggregated
    /\ fpc' = "done"
    /\ lastDone' = [tick |-> c.tick, ok |-> TRUE]
    /\ lastOk' = c.tick
    /\ IF alive = "mounted"
       THEN SetRows(c, CallLocalsOf[metric][c.source][sh].ranked) /\ loading' = FALSE
       ELSE UNCHANGED <<rowsState, lastWrite, loading>>
    /\ UNCHANGED error

FetchSucceeds ==
    /\ \E k \in 1..Len(inflight) :
          /\ inflight' = Without(inflight, k)
          /\ \E sh \in PollSheets : Succeed(inflight[k], sh)
    /\ UNCHANGED <<props, alive, timer, started, epoch, metric, csvVars, rankVars,
                   variantVars>>

Fail_ClearsRows(c, message) ==
    /\ source' = c.source
    /\ lastDone' = [tick |-> c.tick, ok |-> FALSE]
    /\ IF alive = "mounted"
       THEN error' = message /\ loading' = FALSE /\ rowsState' = <<>>
       ELSE UNCHANGED <<error, loading, rowsState>>
    /\ UNCHANGED <<sheet, response, raw, map, aggregated, fpc, lastOk, lastWrite>>

\* lines 307, 330 and 457-461: the call c throws
Fail(c, message) ==
    /\ source' = c.source
    /\ lastDone' = [tick |-> c.tick, ok |-> FALSE]
    /\ IF alive = "mounted"
       THEN error' = message /\ loading' = FALSE
       ELSE UNCHANGED <<error, loading>>
    /\ UNCHANGED <<sheet, response, raw, map, aggregated, fpc, rowsState, lastOk,
                   lastWrite>>

FetchFails ==
    /\ \E k \in 1..Len(inflight) :
          /\ inflight' = Without(inflight, k)
          /\ \/ \E status \in HttpFailures :
                   Fail(inflight[k], FailMessage(inflight[k].source, status))
             \/ Fail(inflight[k], NetworkMessage)
    /\ UNCHANGED <<props, alive, timer, started, epoch, metric, csvVars, rankVars,
                   variantVars>>

\* lines 401-413: the component is rendered again with props of which one
\* of csvUrl, apiKey, sheetId, range differs (line 469); the render itself
\* touches neither the interval nor the calls in flight, and its effect
\* runs later, after the browser has returned to the event loop
Rerender ==
    /\ alive = "mounted"
    /\ ~EffectPending
    /\ epoch < MaxChanges
    /\ started < MaxCycles
    /\ props' \in NewConfigs \ {props}
    /\ epoch' = epoch + 1
    /\ UNCHANGED <<alive, timer, inflight, started, lastDone, lastOk, lastWrite,
                   fetchVars, csvVars, rankVars, variantVars>>

\* lines 464-469 after such a render: the cleanup of the previous effect
\* clears its interval, then the effect runs for the props of the render
EffectAgain ==
    /\ EffectPending
    /\ timer' = [props |-> props, epoch |-> epoch]
    /\ StartCycle(props, epoch)
    /\ UNCHANGED <<props, alive, epoch, lastOk, lastWrite, metric, sheet, response,
                   fpc, raw, map, aggregated, rowsState, csvVars, rankVars,
                   variantVars>>

\* the component is removed (an effect that is pending runs before the
\* commit that removes it); its setters change nothing from now on, and the
\* cleanup of its effect runs later, after the browser has returned to the
\* event loop
Unmount ==
    /\ alive = "mounted"
    /\ ~EffectPending
    /\ alive' = "unmounted"
    /\ UNCHANGED <<props, timer, inflight, started, epoch, lastDone, lastOk,
                   lastWrite, fetchVars, csvVars, rankVars, variantVars>>

\* line 467: the cleanup of the effect of the removed component clears the
\* interval
Cleanup ==
    /\ alive = "unmounted"
    /\ timer # Null
    /\ timer' = Null
    /\ UNCHANGED <<props, alive, inflight, started, epoch, lastDone, lastOk,
                   lastWrite, fetchVars, csvVars, rankVars, variantVars>>

NextPoll ==
    \/ Mount
    \/ TimerTick
    \/ FetchSucceeds
    \/ FetchFails
    \/ Rerender
    \/ EffectAgain
    \/ Unmount
    \/ Cleanup

SpecPoll == InitPoll /\ [][NextPoll]_vars

----------------------------------------------------------------------------
(* The other two variants of the component, on the values of the API path *)

\* first variant: header.forEach((h, i) => headerIdx[h.trim()] = i)
FirstHeaderIdx(header, key) ==
    LET hits == {k \in 1..Len(header) : trim(header[k]) = key}
    IN  IF hits = {} THEN -1
        ELSE (CHOOSE k \in hits : \A j \in hits : j <= k) - 1

PHOTO_COL == <<"P", "h", "o", "t", "o">>
VOTES_COL == <<"V", "o", "t", "e", "s">>

\* first variant, fetchFromSheetsApi: no cell is trimmed, a missing column
\* reads as ""
FirstMap(values) ==
    IF values = <<>> THEN <<>>
    ELSE LET header == Head(values)
             data   == Tail(values)
         IN  [k \in 1..Len(data) |->
                [name  |-> CellOr(data[k], FirstHeaderIdx(header, NAME_COL)),
                 photo |-> CellOr(data[k], FirstHeaderIdx(header, PHOTO_COL)),
                 score |-> CellOr(data[k], FirstHeaderIdx(header, SCORE_COL)),
                 votes |-> CellOr(data[k], FirstHeaderIdx(header, VOTES_COL))]]

\* the dash shown for a score that is not a number
Dash == [dash |-> TRUE]

\* first variant: one element of data.map(...) before the filter
CleanOne(d) ==
    LET scoreNum == ToNumber(replaceCommas(d.score))
        votesNum == IF d.votes # <<>> THEN ToNumber(d.votes) ELSE NaN
    IN  [name     |-> trim(d.name),
         photo    |-> trim(d.photo),
         score    |-> IF isFinite(scoreNum) THEN toFixed(scoreNum, 2) ELSE Dash,
         scoreNum |-> IF isFinite(scoreNum) THEN scoreNum ELSE NegInf,
         votes    |-> IF d.votes # <<>> /\ isFinite(votesNum) THEN votesNum ELSE Null]

NamedOnly(e) == e.name # <<>>

\* first variant: data.map(...).filter(r => r.name)
Cleaned(data) == SelectSeq([k \in 1..Len(data) |-> CleanOne(data[k])], NamedOnly)

\* Sum/Count/Avg variant: the header rows it reads
SUM_COL   == <<"S", "u", "m">>
COUNT_COL == <<"C", "o", "u", "n", "t">>
AVG_COL   == <<"A", "v", "g">>

\* Sum/Count/Avg variant, fetchFromSheetsApi
SumMap(values) ==
    IF values = <<>> THEN <<>>
    ELSE LET header   == Head(values)
             data     == Tail(values)
             nameIdx  == headerIdx(header, norm(NAME_COL))
             sumIdx   == headerIdx(header, norm(SUM_COL))
             countIdx == headerIdx(header, norm(COUNT_COL))
             avgIdx   == headerIdx(header, norm(AVG_COL))
         IN  IF nameIdx = -1 \/ sumIdx = -1 THEN <<>>
             ELSE [k \in 1..Len(data) |->
                     [name  |-> trim(CellOr(data[k], nameIdx)),
                      sum   |-> trim(CellOr(data[k], sumIdx)),
                      count |-> trim(CellOr(data[k], countIdx)),
                      avg   |-> trim(CellOr(data[k], avgIdx))]]

RECURSIVE DigitPrefix(_)
\* the longest prefix of s made of digits
DigitPrefix(s) ==
    IF s # <<>> /\ IsDigit(Head(s)) THEN <<Head(s)>> \o DigitPrefix(Tail(s)) ELSE <<>>

\* parseFloat(s) for a string without exponent or Infinity: leading white
\* space is skipped, then the longest prefix that is a decimal literal is
\* read; NaN when there is none
parseFloat(s) ==
    LET t      == TrimStart(s)
        signed == t # <<>> /\ Head(t) \in {"+", "-"}
        u      == IF signed THEN Tail(t) ELSE t
        whole  == DigitPrefix(u)
        rest   == SubSeq(u, Len(whole) + 1, Len(u))
        frac   == IF rest # <<>> /\ Head(rest) = "." THEN DigitPrefix(Tail(rest)) ELSE <<>>
    IN  IF whole = <<>> /\ frac = <<>> THEN NaN
        ELSE DecimalToDouble(signed /\ Head(t) = "-", DigitsValue(whole \o frac),
                             Len(frac))

\* x || 0 for a number x
OrZero(x) == IF x = NaN THEN Num(0) ELSE x

SumEntry_CommaAsPoint(r) ==
    [name |-> r.name, sum |-> trim(r.sum), count |-> trim(r.count), avg |-> trim(r.avg),
     scoreNum |-> OrZero(parseFloat(replaceCommas(r.sum)))]

\* Sum/Count/Avg variant: one element of raw.map(...)
SumEntry(r) ==
    [name |-> r.name, sum |-> trim(r.sum), count |-> trim(r.count), avg |-> trim(r.avg),
     scoreNum |-> OrZero(parseFloat(r.sum))]

SumEntries(rs) == [k \in 1..Len(rs) |-> SumEntry(rs[k])]

\* the records of a sheet under the header row each variant reads
VariantRecords == RecordsUnder(NameFirst)

ValuesUnder(header, recs) ==
    <<header>> \o [k \in 1..Len(recs) |-> RowOf(NameFirst, recs[k])]

InitVariants ==
    /\ records = <<>> /\ firstRanked = <<>> /\ sumRanked = <<>> /\ aggRanked = <<>>
    /\ vpc = "sheet"
    /\ CsvIdle /\ RankIdle /\ FetchIdle /\ PollIdle

\* one more row in the sheet
AddRecord ==
    /\ vpc = "sheet"
    /\ Len(records) < MaxRecords
    /\ \E rec \in VariantRecords : records' = Append(records, rec)
    /\ UNCHANGED <<firstRanked, sumRanked, aggRanked, vpc, csvVars, rankVars,
                   fetchVars, pollVars>>

\* each variant's fetchData on the values of the sheet, up to setRows
ApplyVariants ==
    /\ vpc = "sheet"
    /\ firstRanked' = withRanks(Cleaned(FirstMap(ValuesUnder(<<NAME_COL, SCORE_COL>>, records))))
    /\ sumRanked' = withRanks(SumEntries(SumMap(ValuesUnder(<<NAME_COL, SUM_COL>>, records))))
    /\ aggRanked' = withRanks(Entries(DISPLAY_METRIC, Aggregate(
                        fetchFromSheetsApi(ValuesUnder(<<NAME_COL, SCORE_COL>>, records)))))
    /\ vpc' = "done"
    /\ UNCHANGED <<records, csvVars, rankVars, fetchVars, pollVars>>

NextVariants == AddRecord \/ ApplyVariants

SpecVariants == InitVariants /\ [][NextVariants]_vars

----------------------------------------------------------------------------
(* Properties of parseCSV *)

ParseDone == pc = "done"

\* a loop iteration of parseCSV (ParseStep), seen as a pair of states
LoopIteration == pc = "loop" /\ pc' = "loop" /\ i' # i

\* the character the iteration reads, and the one after it
ThisChar == CharAt(csvText, i)
NextChar == CharAt(csvText, i + 1)

\* the text before the first line feed
BeforeFirstLF(text) ==
    IF \A k \in 1..Len(text) : text[k] # LF THEN text
    ELSE SubSeq(text, 1, (CHOOSE k \in 1..Len(text) :
                            text[k] = LF /\ \A j \in 1..(k - 1) : text[j] # LF) - 1)

Blank(cell) == \A k \in 1..Len(cell) : cell[k] \in WhiteSpace

BlankRow(r) == \A k \in 1..Len(r) : Blank(r[k])

\* a string between quotes, its quotes doubled
Quoted(s) == <<QUOTE>> \o DoubleQuotes(s) \o <<QUOTE>>

\* C6, iteration by iteration: inside quotes a doubled quote adds one quote
\* to the cell and is consumed whole, any character other than a quote (a
\* delimiter or a line feed too) is added to the cell and ends neither the
\* field nor the row, and the quoted state ends only at a quote that is not
\* followed by a quote.
C6_QuotedStep ==
    (LoopIteration /\ inQuotes) =>
        /\ row' = row /\ rows' = rows
        /\ (ThisChar # QUOTE) =>
              cur' = Append(cur, ThisChar) /\ inQuotes' /\ i' = i + 1
        /\ (ThisChar = QUOTE /\ NextChar = QUOTE) =>
              cur' = Append(cur, QUOTE) /\ inQuotes' /\ i' = i + 2
        /\ (ThisChar = QUOTE /\ NextChar # QUOTE) =>
              cur' = cur /\ ~inQuotes' /\ i' = i + 1

\* C6, on whole inputs: a text that is one quoted field parses to the one
\* cell it encodes (or to no row when that cell is blank), and the field
\* "a,b""c" parses to the single cell a,b"c.
C6_QuotedCell ==
    ParseDone =>
        /\ (Len(csvText) >= 2 /\ Head(csvText) = QUOTE /\ csvText[Len(csvText)] = QUOTE) =>
              \A s \in SeqsUpTo(Alphabet, Len(csvText) - 2) :
                  csvText = Quoted(s) => out = (IF Blank(s) THEN <<>> ELSE <<<<s>>>>)
        /\ csvText = QuotedFieldText => out = <<<<<<"a", ",", "b", QUOTE, "c">>>>>>

\* C6: parseCSV treats a double-quoted field as one cell: a doubled quote
\* inside quotes decodes to one quote, a delimiter or newline inside quotes is
\* cell content, and the quoted state ends only at a quote not followed by
\* another quote; "a,b""c" parses to the single cell a,b"c.
C6_QuotedFieldIsOneCell == [][C6_QuotedStep]_vars /\ []C6_QuotedCell

C6_Witness ==
    /\ ParseDone /\ csvText = QuotedFieldText
    /\ out = <<<<<<"a", ",", "b", QUOTE, "c">>>>>>

\* C7, the choice: once made, the delimiter is the semicolon exactly when the
\* first line holds a semicolon and no comma, and it is never changed.
C7_DelimOfFirstLine ==
    pc \in {"loop", "done"} =>
        delim = (IF includes(BeforeFirstLF(csvText), ";")
                    /\ ~includes(BeforeFirstLF(csvText), ",")
                 THEN ";" ELSE ",")

\* C7, iteration by iteration: outside quotes the chosen delimiter ends the
\* field, and the other of comma and semicolon is cell content.
C7_UnquotedStep ==
    /\ pc = "loop" => delim' = delim
    /\ (LoopIteration /\ ~inQuotes /\ ThisChar \in {",", ";"}) =>
          IF ThisChar = delim
          THEN row' = Append(row, cur) /\ cur' = <<>>
          ELSE row' = row /\ cur' = Append(cur, ThisChar)

C7_Example ==
    (ParseDone /\ csvText = SemicolonText) =>
        out = << <<<<"a">>, <<"b">>, <<"c">>>>, <<<<"d", ",", "e">>, <<"f">>>> >>

\* C7: the delimiter is chosen once from the first line (semicolon when that
\* line holds a semicolon and no comma, comma otherwise) and holds for the
\* whole input: after a first line a;b;c a comma in an unquoted field of a
\* later line is cell content.
C7_DelimiterChosenOnce ==
    []C7_DelimOfFirstLine /\ [][C7_UnquotedStep]_vars /\ []C7_Example

C7_Witness ==
    /\ ParseDone /\ csvText = SemicolonText /\ delim = ";"
    /\ Len(out) = 2 /\ out[2][1] = <<"d", ",", "e">>

\* the positions of the rows of rs that are neither empty nor all blank
KeptPositions(rs) == {k \in 1..Len(rs) : Len(rs[k]) > 0 /\ ~BlankRow(rs[k])}

\* C8: no returned row is empty or has only blank cells, wherever the blank
\* lines stand in the input, and the returned rows are the other rows of the
\* input in their input order.
C8_NoBlankRows ==
    ParseDone =>
        /\ \A n \in 1..Len(out) : Len(out[n]) > 0 /\ ~BlankRow(out[n])
        /\ Len(out) = Cardinality(KeptPositions(rows))
        /\ \A n \in 1..Len(out) :
              out[n] = rows[CHOOSE k \in KeptPositions(rows) :
                              Cardinality({j \in KeptPositions(rows) : j <= k}) = n]

C8_Witness ==
    /\ ParseDone /\ csvText = BlankLinesText
    /\ Len(rows) = 5
    /\ out = << <<<<"a">>, <<"b">>>>, <<<<"c">>, <<"d">>>> >>

\* C9 as stated: a text and the same text followed by a line feed parse to
\* the same rows, for every text.
C9_TrailingNewlineIrrelevant ==
    ParseDone => parseCSV(csvText \o <<LF>>) = out

\* C9, iteration by iteration: a line feed outside quotes ends the row in
\* progress and starts an empty one; the end of the input emits the row in
\* progress.
C9_RowStep ==
    /\ (LoopIteration /\ ~inQuotes /\ ThisChar = LF) =>
          rows' = Append(rows, Append(row, cur)) /\ row' = <<>> /\ cur' = <<>>
    /\ (pc = "loop" /\ pc' = "done") =>
          rows' = Append(rows, Append(row, cur))

\* C9 amended: a line feed outside quotes ends the row, the end of the input
\* emits the row in progress, and a text that does not end inside an open
\* quoted field parses to the same rows with and without a trailing line feed.
C9_TrailingNewlineOutsideQuotes ==
    /\ [][C9_RowStep]_vars
    /\ []((ParseDone /\ ~inQuotes) => parseCSV(csvText \o <<LF>>) = out)

C9_Witness ==
    /\ ParseDone /\ ~inQuotes /\ csvText = SemicolonText
    /\ Len(out) = 2
    /\ parseCSV(SemicolonText \o <<LF>>) = out

RECURSIVE LoopStates(_, _, _)
\* the values of the locals before each iteration and after the last
LoopStates(text, d, s) ==
    IF s.i < Len(text) THEN <<s>> \o LoopStates(text, d, LoopBody(text, d, s))
    ELSE <<s>>

\* the locals just before the iteration that reads the quote which is still
\* open at the end of the input
BeforeOpenQuote(text) ==
    LET st == LoopStates(text, Delim(text), LoopInit)
        n  == CHOOSE k \in 1..(Len(st) - 1) :
                  /\ ~st[k].inQuotes /\ st[k + 1].inQuotes
                  /\ \A j \in (k + 1)..Len(st) : st[j].inQuotes
    IN  st[n]

RECURSIVE Undoubled(_)
\* a string with each doubled quote replaced by one quote
Undoubled(s) ==
    IF s = <<>> THEN <<>>
    ELSE IF Head(s) = QUOTE /\ Len(s) > 1 /\ s[2] = QUOTE
         THEN <<QUOTE>> \o Undoubled(Tail(Tail(s)))
         ELSE <<Head(s)>> \o Undoubled(Tail(s))

\* C10, the unclosed quote: when the input ends inside a quoted field, what
\* follows the opening quote (doubled quotes decoded) is added to the cell in
\* progress without any field or row boundary, that cell is the last cell of
\* the last row parsed, and it is the last cell returned unless its row is
\* blank; when the cell was empty at the quote and no quote follows, the cell
\* is the rest of the input.
C10_UnclosedQuote ==
    (ParseDone /\ inQuotes) =>
        LET b    == BeforeOpenQuote(csvText)
            rest == SubSeq(csvText, b.i + 2, Len(csvText))
            last == rows[Len(rows)]
        IN  /\ CharAt(csvText, b.i) = QUOTE
            /\ cur = b.cur \o Undoubled(rest)
            /\ Len(rows) = Len(b.rows) + 1
            /\ last = Append(b.row, cur)
            /\ ~BlankRow(last) => out # <<>> /\ out[Len(out)] = last
            /\ (b.cur = <<>> /\ ~includes(rest, QUOTE)) => last[Len(last)] = rest

\* C10, no error: the returned value is a list of rows of cells over the
\* characters of the input.
C10_ReturnsRows ==
    ParseDone =>
        \A n \in 1..Len(out) : \A k \in 1..Len(out[n]) : \A j \in 1..Len(out[n][k]) :
            includes(csvText, out[n][k][j])

\* C10: parseCSV terminates and returns rows for every input text, also when
\* a quote is never closed; then the rest of the input after the opening quote
\* becomes the content of the last cell.
C10_TerminatesOnAnyText ==
    /\ <>ParseDone
    /\ []C10_ReturnsRows
    /\ []C10_UnclosedQuote

C10_Witness ==
    /\ ParseDone /\ inQuotes /\ csvText = UnclosedQuoteText
    /\ out = << <<<<"a">>, <<"b", ";", "c", LF, "d">>>> >>

----------------------------------------------------------------------------
(* Properties of withRanks *)

ScoresOf(list) == [k \in 1..Len(list) |-> list[k].scoreNum]
RanksOf(list)  == [k \in 1..Len(list) |-> list[k].rank]
Unranked(e)    == [f \in (DOMAIN e) \ {"rank"} |-> e[f]]

\* C1: withRanks returns the entries sorted by numericScore descending; the
\* first has rank 1 and every later one has the rank of the entry before it
\* when their scores are equal, otherwise its 1-based position; the scores
\* [10, 10, 7, 7, 7, 3] get the ranks [1, 1, 3, 3, 3, 6].
C1_RankWalk ==
    rpc = "done" =>
        /\ Len(ranked) = Len(items)
        /\ {Unranked(ranked[k]) : k \in 1..Len(ranked)} = {items[k] : k \in 1..Len(items)}
        /\ \A k \in 1..(Len(ranked) - 1) :
              ~Less(ranked[k].scoreNum, ranked[k + 1].scoreNum)
        /\ ranked # <<>> => ranked[1].rank = 1
        /\ \A k \in 2..Len(ranked) :
              ranked[k].rank = IF ranked[k].scoreNum = ranked[k - 1].scoreNum
                               THEN ranked[k - 1].rank ELSE k
        /\ ScoresOf(ranked) = <<Num(10), Num(10), Num(7), Num(7), Num(7), Num(3)>>
              => RanksOf(ranked) = <<1, 1, 3, 3, 3, 6>>

C1_Witness ==
    /\ rpc = "done"
    /\ ScoresOf(items) = <<Num(7), Num(3), Num(10), Num(7), Num(10), Num(7)>>
    /\ ScoresOf(ranked) = <<Num(10), Num(10), Num(7), Num(7), Num(7), Num(3)>>
    /\ RanksOf(ranked) = <<1, 1, 3, 3, 3, 6>>

----------------------------------------------------------------------------
(* Properties of the aggregation in fetchData *)

\* a fetch cycle has completed with a response
FetchOk == fpc = "done" /\ sheet # <<>> /\ error = NoError

NamesOf(list) == [k \in 1..Len(list) |-> list[k].name]

NoNameTwice(list) ==
    \A j, k \in 1..Len(list) : list[j].name = list[k].name => j = k

\* the score cell converts to a finite number once a decimal comma is read
\* as a decimal point
FiniteScore(cell) == isFinite(ToNumber(replaceCommas(cell)))

ScoreValue(cell) == ToNumber(replaceCommas(cell))

\* the score cell is a number: not blank, and a decimal numeral
IsNumberCell(cell) == ~Blank(cell) /\ FiniteScore(cell)

\* the positions of the records of rs that carry the name and whose score
\* converts to a finite number
Members(rs, name) ==
    {j \in 1..Len(rs) : trim(rs[j].name) = name /\ FiniteScore(rs[j].score)}

\* the positions of the records of rs that carry the name and whose score
\* cell is a number
NumberMembers(rs, name) ==
    {j \in 1..Len(rs) : trim(rs[j].name) = name /\ IsNumberCell(rs[j].score)}

RECURSIVE SumOf(_, _)
\* the sum of the scores of the records of rs at the positions in S, added
\* one after the other in the order of the records, each sum a double
SumOf(rs, S) ==
    IF S = {} THEN Num(0)
    ELSE LET j == CHOOSE x \in S : \A y \in S : y <= x
         IN  Add(SumOf(rs, S \ {j}), ScoreValue(rs[j].score))

\* C2: the aggregated list has exactly one entry for each distinct trimmed
\* name that occurs in at least one raw record with a valid score (one that
\* converts to a finite number), and no entry for any other name.
C2_OneEntryPerValidName ==
    FetchOk =>
        LET valid == {trim(raw[j].name) : j \in {x \in 1..Len(raw) :
                          trim(raw[x].name) # <<>> /\ FiniteScore(raw[x].score)}}
        IN  /\ {aggregated[k].name : k \in 1..Len(aggregated)} = valid
            /\ NoNameTwice(aggregated)
            /\ Len(aggregated) = Cardinality(valid)
            /\ {rowsState[k].name : k \in 1..Len(rowsState)} = valid
            /\ NoNameTwice(rowsState)

C2_Witness ==
    /\ FetchOk
    /\ sheet.records = <<Rec(<<" ", "A">>, <<"5">>), Rec(<<"A">>, <<"3">>)>>
    /\ NamesOf(rowsState) = <<<<"A">>>>

\* C3 as stated: a record whose score cell is not a number (N/A, or a blank
\* cell) adds nothing to the total of its group and is not counted in its
\* voteCount, and the other records of the fetch are aggregated.
C3_NonNumberAddsNothing ==
    FetchOk =>
        \A k \in 1..Len(map) :
            /\ map[k].count = Cardinality(NumberMembers(raw, map[k].name))
            /\ map[k].total = SumOf(raw, NumberMembers(raw, map[k].name))

\* C4: for each group, total is the sum of its parsed scores and voteCount
\* the number of its parsed records; numericScore is total under SUM and
\* total / max(1, voteCount) under AVERAGE.  For {A:5},{A:3},{B:8}: SUM gives
\* A = 8 and B = 8, both rank 1; AVERAGE gives A = 4 at rank 2, B = 8 at rank 1.
C4_TotalCountAndMetric ==
    FetchOk =>
        /\ Len(aggregated) = Len(map)
        /\ \A k \in 1..Len(map) :
              /\ map[k].total = SumOf(raw, Members(raw, map[k].name))
              /\ map[k].count = Cardinality(Members(raw, map[k].name))
              /\ aggregated[k].name = map[k].name
              /\ aggregated[k].votes = map[k].count
              /\ metric = "sum" => aggregated[k].scoreNum = map[k].total
              /\ metric = "avg" =>
                    /\ map[k].count >= 1
                    /\ aggregated[k].scoreNum = DivInt(map[k].total, map[k].count)
        /\ (sheet.records = ExampleRecords /\ metric = "sum") =>
              /\ {<<e.name, e.scoreNum, e.rank>> : e \in {rowsState[k] : k \in 1..Len(rowsState)}}
                    = {<<<<"A">>, Num(8), 1>>, <<<<"B">>, Num(8), 1>>}
              /\ Len(rowsState) = 2
        /\ (sheet.records = ExampleRecords /\ metric = "avg") =>
              rowsState = << [name |-> <<"B">>, photo |-> "", score |-> toFixed(Num(8), 2),
                              scoreNum |-> Num(8), votes |-> 1, rank |-> 1],
                             [name |-> <<"A">>, photo |-> "", score |-> toFixed(Num(4), 2),
                              scoreNum |-> Num(4), votes |-> 2, rank |-> 2] >>

C4_Witness ==
    /\ FetchOk /\ metric = "avg" /\ sheet.records = ExampleRecords
    /\ NamesOf(rowsState) = <<<<"B">>, <<"A">>>>
    /\ RanksOf(rowsState) = <<1, 2>>
    /\ ScoresOf(rowsState) = <<Num(8), Num(4)>>

\* the cells of a record of the sheet; an absent cell reads as empty
NameCellOf(rec)  == IF rec.name = Absent THEN <<>> ELSE rec.name
ScoreCellOf(rec) == IF rec.score = Absent THEN <<>> ELSE rec.score

SheetCells(sh) ==
    [j \in 1..Len(sh.records) |->
        [name |-> NameCellOf(sh.records[j]), score |-> ScoreCellOf(sh.records[j])]]

\* C5: a record of the sheet whose name is empty or missing after trimming
\* is dropped before grouping: no group and no entry of the ranked list has
\* an empty name, and the total and voteCount of every group come from the
\* records that carry its name alone.
C5_UnnamedRecordsDropped ==
    (FetchOk /\ sheet.header \in Headers) =>
        /\ \A k \in 1..Len(raw) : raw[k].name = trim(raw[k].name)
        /\ \A k \in 1..Len(map) : map[k].name # <<>> /\ ~Blank(map[k].name)
        /\ \A k \in 1..Len(rowsState) : rowsState[k].name # <<>>
        /\ \A k \in 1..Len(map) :
              /\ map[k].count =
                    Cardinality(Members(SheetCells(sheet), map[k].name))
              /\ map[k].total =
                    SumOf(SheetCells(sheet), Members(SheetCells(sheet), map[k].name))

C5_Witness ==
    /\ FetchOk
    /\ sheet.header = ScoreFirst
    /\ sheet.records = <<Rec(Absent, <<"5">>), Rec(<<"A">>, <<"3">>)>>
    /\ Len(raw) = 2 /\ raw[1].name = <<>>
    /\ map = <<[name |-> <<"A">>, total |-> Num(3), count |-> 1]>>

----------------------------------------------------------------------------
(* Properties of the mounted component *)

\* a step in which a cycle completes, and how
CycleCompletes == lastDone' # lastDone
CycleFails     == CycleCompletes /\ ~lastDone'.ok
CycleSucceeds  == CycleCompletes /\ lastDone'.ok

C11_FailStep ==
    /\ (CycleFails /\ alive = "mounted") =>
          /\ rowsState' = rowsState
          /\ lastWrite' = lastWrite
          /\ error' # NoError
          /\ error' \in {ConfigMessage, NetworkMessage}
                            \cup {FailMessage(src, st) : src \in {"csv", "api"}, st \in HttpFailures}
    /\ (rowsState' # rowsState \/ lastWrite' # lastWrite) =>
          /\ CycleSucceeds
          /\ lastWrite'.tick = lastDone'.tick

C11_TickAfterFailure ==
    (alive = "mounted" /\ error # NoError /\ started < MaxCycles) => ENABLED TimerTick

\* C11: a cycle that fails (a status that is not ok, a thrown error, no
\* source configured) leaves the displayed list as it was and sets the error
\* banner; only a cycle that completes successfully replaces the list; and
\* with the banner set the next tick of the interval still starts a cycle.
C11_FailedCycleKeepsList == [][C11_FailStep]_vars /\ []C11_TickAfterFailure

C11_Witness ==
    /\ alive = "mounted"
    /\ lastWrite.tick = 1 /\ rowsState # <<>>
    /\ lastDone = [tick |-> 2, ok |-> FALSE]
    /\ error = FailMessage("csv", 500)

\* the names a sheet of PollSheets ranks, best first
ExpectedNames(sh) ==
    IF sh.header # NameFirst THEN <<>>
    ELSE IF Len(sh.records) = 1 THEN << <<"A">> >>
    ELSE << <<"B">>, <<"A">> >>

C12_TickWhileInFlight ==
    (alive = "mounted" /\ inflight # <<>> /\ started < MaxCycles) => ENABLED TimerTick

C12_LastCompletionShown ==
    (alive = "mounted" /\ lastOk > 0) =>
        /\ lastWrite.tick = lastOk
        /\ NamesOf(rowsState) = ExpectedNames(sheet)

C12_SuccessStep ==
    (CycleSucceeds /\ alive = "mounted") =>
        /\ lastWrite'.tick = lastDone'.tick
        /\ lastWrite'.before = rowsState
        /\ NamesOf(rowsState') = ExpectedNames(sheet')

\* C12: a tick of the interval starts a cycle while another is in flight,
\* and completions are applied in the order they arrive, whatever the order
\* in which the cycles started: the list on display is the result of the
\* cycle that succeeded last, also when that cycle started first.
C12_LastCompletionWins ==
    []C12_TickWhileInFlight /\ []C12_LastCompletionShown /\ [][C12_SuccessStep]_vars

C12_Witness ==
    /\ alive = "mounted" /\ epoch = 0
    /\ started = 2 /\ inflight = <<>>
    /\ lastDone = [tick |-> 1, ok |-> TRUE]
    /\ lastWrite.tick = 1
    /\ NamesOf(lastWrite.before) = << <<"B">>, <<"A">> >>
    /\ NamesOf(rowsState) = << <<"A">> >>

\* the cycle a step starts, if it starts one: the newest call in flight
Newest(calls) == calls[Len(calls)]

C13_StartStep ==
    started' # started =>
        LET p    == timer'.props
            csv  == p.csvUrl = "set"
            api  == p.apiKey = "set" /\ p.sheetId = "set" /\ p.range = "set"
        IN  /\ csv =>
                  /\ Len(inflight') = Len(inflight) + 1
                  /\ Newest(inflight').source = "csv"
            /\ (~csv /\ api) =>
                  /\ Len(inflight') = Len(inflight) + 1
                  /\ Newest(inflight').source = "api"
            /\ (~csv /\ ~api) =>
                  /\ inflight' = inflight
                  /\ alive' = "mounted" => error' = ConfigMessage
                  /\ lastDone' = [tick |-> started', ok |-> FALSE]
                  /\ rowsState' = rowsState

\* the response a cycle reads is the one of its single source
C13_OneSource ==
    /\ \A k \in 1..Len(inflight) :
          /\ inflight[k].source \in {"csv", "api"}
          /\ inflight[k].source = "csv" <=> inflight[k].props.csvUrl = "set"
    /\ (lastDone.tick > 0 /\ lastDone.ok /\ source = "csv") => response = CsvOf(sheet)
    /\ (lastDone.tick > 0 /\ lastDone.ok /\ source = "api") => response = ValuesOf(sheet)

\* C13: a cycle reads from the CSV source whenever csvUrl is set, also when
\* apiKey, sheetId and range are set as well; from the tabular API only when
\* csvUrl is not set and all three of them are; with neither it requests
\* nothing and ends at once with the configuration error in the banner.
C13_SourceSelection == [][C13_StartStep]_vars /\ []C13_OneSource

C13_Witness ==
    /\ alive = "mounted"
    /\ props = Props("set", "set", "set", "set")
    /\ lastOk = 1 /\ source = "csv"
    /\ response = CsvOf(sheet) /\ response # ValuesOf(sheet)
    /\ rowsState # <<>>

\* the header row has no cell that reads name, or none that reads score,
\* once trimmed and put in lower case
HasColumn(header, key) ==
    \E k \in 1..Len(header) : toLowerCase(trim(header[k])) = key

LacksColumn(header) ==
    \/ ~HasColumn(header, <<"n", "a", "m", "e">>)
    \/ ~HasColumn(header, <<"s", "c", "o", "r", "e">>)

C14_SuccessStep ==
    (CycleSucceeds /\ alive = "mounted" /\ LacksColumn(sheet'.header)) =>
        /\ sheet'.records # <<>>
        /\ raw' = <<>>
        /\ rowsState' = <<>>
        /\ lastWrite'.tick = lastDone'.tick
        /\ error' = error
        /\ loading' = FALSE

C14_NoDataShown ==
    (alive = "mounted" /\ lastDone.tick > 0 /\ lastDone.ok /\ LacksColumn(sheet.header)) =>
        rowsState = <<>>

\* C14: a response with status ok whose header row lacks the name column or
\* the score column gives zero entries from either source, and the cycle
\* completes as a success: the list on display is replaced by the empty
\* list and the cycle does not set the error banner.
C14_MissingColumnIsNoData == [][C14_SuccessStep]_vars /\ []C14_NoDataShown

C14_Witness ==
    /\ alive = "mounted"
    /\ lastDone = [tick |-> 2, ok |-> TRUE]
    /\ lastWrite.tick = 2 /\ lastWrite.before # <<>>
    /\ sheet.header = NameOnly /\ source = "csv"
    /\ rowsState = <<>> /\ error = NoError /\ loading = FALSE

----------------------------------------------------------------------------
(* Properties of the variants *)

VariantsDone == vpc = "done"

\* the name and score cells of the rows of the sheet; an absent cell is empty
CellsOfRecords == SheetCells([header |-> NameFirst, records |-> records])

\* the rows with a name and a score that converts to a finite number
ValidRows ==
    {j \in 1..Len(records) :
        /\ trim(CellsOfRecords[j].name) # <<>>
        /\ FiniteScore(CellsOfRecords[j].score)}

NamedRows == {j \in 1..Len(records) : trim(CellsOfRecords[j].name) # <<>>}

\* the list holds one entry for each valid row and none for any other row,
\* with the score of the row read with a decimal comma as a decimal point
OnlyValidRows(list) ==
    /\ Len(list) = Cardinality(ValidRows)
    /\ \A k \in 1..Len(list) :
          \E j \in ValidRows :
              /\ list[k].name = trim(CellsOfRecords[j].name)
              /\ list[k].scoreNum = ScoreValue(CellsOfRecords[j].score)

\* the aggregating variant: one entry per name of a valid row, its score the
\* sum of the valid rows of the name
AggregatedValidRows(list) ==
    /\ {list[k].name : k \in 1..Len(list)} = {trim(CellsOfRecords[j].name) : j \in ValidRows}
    /\ NoNameTwice(list)
    /\ \A k \in 1..Len(list) :
          list[k].scoreNum =
              SumOf(CellsOfRecords, Members(CellsOfRecords, list[k].name))

\* C15 as stated: every variant ranks the valid rows only (the aggregating
\* variant grouped by name), a row with an empty name or a score that is not
\* a finite number being absent, and reads a decimal comma as a decimal point.
C15_SameFilterInEveryVariant ==
    VariantsDone =>
        /\ AggregatedValidRows(aggRanked)
        /\ OnlyValidRows(firstRanked)
        /\ OnlyValidRows(sumRanked)

\* what the Sum/Count/Avg variant reads from a score cell of ScoreCells
SumRead(cell) ==
    IF cell = <<"2", ",", "5">> THEN Num(2)
    ELSE IF cell = <<"5">> THEN Num(5)
    ELSE IF cell = <<"3">> THEN Num(3)
    ELSE IF cell = <<"8">> THEN Num(8)
    ELSE Num(0)

\* C15 as amended: the aggregating variant applies the filter; the first
\* variant drops the rows with an empty name only and keeps a row whose score
\* is not a finite number, at -Infinity, below every finite score; the
\* Sum/Count/Avg variant drops no row, reads a score that does not parse as
\* 0 and stops reading at a decimal comma.
C15_FilterPerVariant ==
    VariantsDone =>
        /\ AggregatedValidRows(aggRanked)
        /\ Len(firstRanked) = Cardinality(NamedRows)
        /\ \A k \in 1..Len(firstRanked) :
              \E j \in NamedRows :
                  /\ firstRanked[k].name = trim(CellsOfRecords[j].name)
                  /\ firstRanked[k].scoreNum =
                        IF FiniteScore(CellsOfRecords[j].score)
                        THEN ScoreValue(CellsOfRecords[j].score) ELSE NegInf
        /\ \A j, k \in 1..Len(firstRanked) :
              (firstRanked[j].scoreNum = NegInf /\ firstRanked[k].scoreNum # NegInf)
                  => (k < j /\ firstRanked[k].rank < firstRanked[j].rank)
        /\ Len(sumRanked) = Len(records)
        /\ \A k \in 1..Len(sumRanked) :
              \E j \in 1..Len(records) :
                  /\ sumRanked[k].name = trim(CellsOfRecords[j].name)
                  /\ sumRanked[k].scoreNum = SumRead(CellsOfRecords[j].score)
        /\ \A j \in 1..Len(records) :
              \E k \in 1..Len(sumRanked) :
                  /\ sumRanked[k].name = trim(CellsOfRecords[j].name)
                  /\ sumRanked[k].scoreNum = SumRead(CellsOfRecords[j].score)

C15_Witness ==
    /\ VariantsDone
    /\ records = <<Rec(<<"A">>, <<"N", "/", "A">>), Rec(<<>>, <<"2", ",", "5">>)>>
    /\ aggRanked = <<>>
    /\ Len(firstRanked) = 1 /\ firstRanked[1].name = <<"A">>
    /\ firstRanked[1].scoreNum = NegInf /\ firstRanked[1].score = Dash
    /\ Len(sumRanked) = 2 /\ sumRanked[1].name = <<>> /\ sumRanked[1].scoreNum = Num(2)
    /\ sumRanked[2].name = <<"A">> /\ sumRanked[2].scoreNum = Num(0)

----------------------------------------------------------------------------
(* Ties in the ranked list *)

\* the group of the map an entry of the list was made from
GroupOf(e) == map[CHOOSE k \in 1..Len(map) : map[k].name = e.name]

\* the metrics of two groups are the same number: the totals under SUM, the
\* quotients total / count under AVERAGE, compared as numbers and not as the
\* strings toFixed makes of them
SameMetric(g, h) ==
    IF metric = "sum"
    THEN g.total = h.total
    ELSE DivInt(g.total, Max(1, g.count)) = DivInt(h.total, Max(1, h.count))

\* C16: two entries of the ranked list have the same rank exactly when the
\* metrics of their groups are the same number; entries whose metrics differ
\* have different ranks also when both show the same rounded string.
C16_TiesOnNumericScore ==
    FetchOk =>
        \A j, k \in 1..Len(rowsState) :
            /\ (rowsState[j].rank = rowsState[k].rank)
                  <=> SameMetric(GroupOf(rowsState[j]), GroupOf(rowsState[k]))
            /\ (rowsState[j].rank = rowsState[k].rank)
                  <=> (rowsState[j].scoreNum = rowsState[k].scoreNum)

C16_Witness ==
    /\ FetchOk /\ metric = "avg" /\ sheet.records = CloseAverages
    /\ NamesOf(rowsState) = << <<"A">>, <<"B">> >>
    /\ rowsState[1].score = rowsState[2].score
    /\ rowsState[1].score = [neg |-> FALSE, n |-> 533, digits |-> 2]
    /\ rowsState[1].scoreNum # rowsState[2].scoreNum
    /\ RanksOf(rowsState) = <<1, 2>>

\* how many entries of the list score strictly more than the entry e
GreaterThan(list, e) ==
    Cardinality({j \in 1..Len(list) : Less(e.scoreNum, list[j].scoreNum)})

Occurrences(list, x) == Cardinality({k \in 1..Len(list) : list[k] = x})

Stripped(list) == [k \in 1..Len(list) |-> Unranked(list[k])]

\* C17: the output of withRanks is a permutation of its input in order of
\* non-increasing numericScore, and the rank of each entry is 1 plus the
\* number of entries that score strictly more; so the ranks never decrease
\* along the list, the first is 1, none exceeds the position of its entry,
\* and two entries have the same rank exactly when their scores are equal.
C17_RankCountsGreater ==
    rpc = "done" =>
        /\ Len(ranked) = Len(items)
        /\ \A k \in 1..Len(items) :
              Occurrences(Stripped(ranked), items[k]) = Occurrences(items, items[k])
        /\ \A k \in 1..(Len(ranked) - 1) :
              ~Less(ranked[k].scoreNum, ranked[k + 1].scoreNum)
        /\ \A k \in 1..Len(ranked) :
              /\ ranked[k].rank = 1 + GreaterThan(ranked, ranked[k])
              /\ ranked[k].rank <= k
              /\ k > 1 => ranked[k - 1].rank <= ranked[k].rank
        /\ ranked # <<>> => ranked[1].rank = 1
        /\ \A j, k \in 1..Len(ranked) :
              (ranked[j].rank = ranked[k].rank) <=> (ranked[j].scoreNum = ranked[k].scoreNum)

C17_Witness ==
    /\ rpc = "done"
    /\ ScoresOf(items) = <<Num(3), Num(10), Num(7), Num(10)>>
    /\ NamesOf(ranked) = << <<"B">>, <<"D">>, <<"C">>, <<"A">> >>
    /\ RanksOf(ranked) = <<1, 1, 3, 4>>

----------------------------------------------------------------------------
(* The banner and the props under overlapping cycles *)

C18_CompletionStep ==
    (CycleCompletes /\ alive = "mounted" /\ epoch' = 0) =>
        ((error' # NoError) <=> ~lastDone'.ok)

\* C18 as stated, for the cycles of one configuration: whenever a cycle
\* completes, the banner is shown exactly when that cycle, the most recently
\* completed one, failed; so once a cycle has completed successfully no
\* error message of another cycle is on display.  (Between completions a
\* starting cycle clears the banner.)
C18_BannerFollowsLastCompletion == [][C18_CompletionStep]_vars

\* once the effect of the newest render has run, the interval is the one of
\* the current props
C19_TimerOfCurrentProps ==
    (alive = "mounted" /\ ~EffectPending) => (timer # Null /\ timer.props = props)

C19_Step ==
    /\ (started' # started) =>
          /\ timer'.props = props'
          /\ Len(inflight') > Len(inflight) =>
                /\ Newest(inflight').props = props'
                /\ Newest(inflight').epoch = epoch'
    /\ (alive = "unmounted") => (started' = started /\ rowsState' = rowsState)
    /\ (lastWrite' # lastWrite) => lastWrite'.epoch = epoch'

\* C19 as stated: once csvUrl, apiKey, sheetId or range has changed, or the
\* component is torn down, the interval of the old props is cleared and no
\* cycle starts for them, and the list on display is never again replaced by
\* a result fetched for the old props, also when a cycle for them was in
\* flight at the change.
C19_NoResultOfOldProps == []C19_TimerOfCurrentProps /\ [][C19_Step]_vars

====
